---- MODULE Spec2Model ----
(***************************************************************************)
(* Model of src/app.py (Speech Transcript Generator, Streamlit version):   *)
(* PDFProcessor.extract_slides, AudioAnalyzer.analyze_audio,               *)
(* TranscriptGenerator.generate_transcript and the script main(), which    *)
(* Streamlit re-runs from top to bottom on every user interaction.         *)
(*                                                                         *)
(* Conventions.  An Optional value is a sequence of length 0 (None) or 1.  *)
(* A call's outcome is Return(v) or Raise(msg).  A text (an exception      *)
(* message) is a sequence of phrases; `in` on texts is phrase membership.  *)
(* A real number is a fraction [n, d] with d > 0.  The templated strings   *)
(* of the request are records holding the values of the template's holes.  *)
(***************************************************************************)
EXTENDS Integers, Sequences, FiniteSets, TLC

----------------------------------------------------------------------------
(* Bounds of the model *)

MaxPages == 2
MaxSlides == 8
MaxCalls == 2
MaxOps == 1

----------------------------------------------------------------------------
(* Optional values, call outcomes, numbers *)

None == <<>>
Some(x) == <<x>>
Truthy(o) == Len(o) > 0

Return(v) == [raised |-> FALSE, value |-> v]
Raise(msg) == [raised |-> TRUE, error |-> msg]

Frac(n, d) == [n |-> n, d |-> d]
Whole(k) == Frac(k, 1)

\* int(x) of a non-negative real x: truncation
IntOf(x) == x.n \div x.d

Contains(text, phrase) == \E i \in DOMAIN text : text[i] = phrase

LowerPhrase(p) ==
    CASE p = "API key" -> "api key"
      [] p = "Authentication" -> "authentication"
      [] p = "Rate limit" -> "rate limit"
      [] p = "Quota" -> "quota"
      [] OTHER -> p

\* str.lower()
Lower(text) == [i \in DOMAIN text |-> LowerPhrase(text[i])]

----------------------------------------------------------------------------
(* The temporary files every call stages its input in *)

pdf_path == "/tmp/presentation.pdf"
audio_path == "/tmp/audio_sample.m4a"
mp3_path == "/tmp/converted_audio.mp3"

Paths == {pdf_path, audio_path, mp3_path}

NoFiles == [p \in Paths |-> None]

WriteFile(fs, path, bytes) == [fs EXCEPT ![path] = Some(bytes)]

\* if os.path.exists(path): os.remove(path)
RemoveIfExists(fs, path) == [fs EXCEPT ![path] = None]

----------------------------------------------------------------------------
(* PDFProcessor *)

\* str.strip() on a page's text
Strip(t) == IF t = " " THEN "" ELSE t

B64Encode(bytes) == [b64 |-> bytes]

\* page.get_pixmap(matrix=fitz.Matrix(2, 2)).tobytes("png")
Pixmap(doc, i) == [png |-> [doc |-> doc.id, page |-> i, scale |-> 2]]

\* SlideOf with the loop index as the page value
SlideOf_zero_based(doc, page_num) ==
    [page  |-> page_num,
     text  |-> IF Strip(doc.texts[page_num + 1]) # ""
                 THEN Strip(doc.texts[page_num + 1])
                 ELSE "[No text content on this page]",
     image |-> B64Encode(Pixmap(doc, page_num + 1))]

SlideOf(doc, page_num) ==
    [page  |-> page_num + 1,
     text  |-> IF Strip(doc.texts[page_num + 1]) # ""
                 THEN Strip(doc.texts[page_num + 1])
                 ELSE "[No text content on this page]",
     image |-> B64Encode(Pixmap(doc, page_num + 1))]

\* for page_num in range(len(doc)): slides.append({...})
SlidesOf(doc) == [i \in 1..Len(doc.texts) |-> SlideOf(doc, i - 1)]

PdfError(msg) == Raise(<<"PDF processing error: ">> \o msg)

\* fitz.open(pdf_path) and the loop over its pages, on the bytes found
\* at pdf_path
ReadSlides(found) ==
    IF ~Truthy(found) THEN PdfError(<<"no such file">>)
    ELSE IF ~found[1].readable THEN PdfError(<<"cannot open broken document">>)
    ELSE IF Len(found[1].texts) = 0
        THEN PdfError(<<"This PDF file does not contain any pages">>)
    ELSE Return(SlidesOf(found[1]))

\* extract_slides(self, pdf_file), one call run to its end
extract_slides(slides_content0, fs0, pdf) ==
    LET fs1 == WriteFile(fs0, pdf_path, pdf)
        ret == ReadSlides(fs1[pdf_path])
    IN  [fs |-> fs1,
         slides_content |-> IF ret.raised THEN slides_content0 ELSE ret.value,
         ret |-> ret]

----------------------------------------------------------------------------
(* AudioAnalyzer *)

MinSeconds == 5
MaxSeconds == 120
MsPerSecond == 1000
SecondsPerMinute == 60

Less(x, k) == x.n < k * x.d
Greater(x, k) == x.n > k * x.d

IsSpace(c) == c = " "

\* len([c for c in text if c.strip() and not c.isspace()])
CharCount(text) == Cardinality({i \in DOMAIN text : ~IsSpace(text[i])})

\* not text or len(text.strip()) == 0
Unrecognised(text) == Len(text) = 0 \/ \A i \in DOMAIN text : IsSpace(text[i])

AudioError(msg) == Raise(<<"Audio analysis error: ">> \o msg)

TooShort ==
    <<"Audio duration too short (less than 5 seconds), suggest uploading around 20 seconds">>
TooLong ==
    <<"Audio duration too long (over 2 minutes), please upload a 20-60 second audio sample">>
NoSpeech ==
    <<"Unable to recognize audio content, please ensure audio is clear and contains speech">>

\* MeasureAudio with the lower bound excluded
MeasureAudio_exclusive(found) ==
    IF ~Truthy(found) THEN AudioError(<<"no such file">>)
    ELSE IF ~found[1].decodable THEN AudioError(<<"decoding failed">>)
    ELSE LET duration_seconds == Frac(found[1].len_ms, MsPerSecond)
         IN  IF ~Greater(duration_seconds, MinSeconds) THEN AudioError(TooShort)
             ELSE IF Greater(duration_seconds, MaxSeconds) THEN AudioError(TooLong)
             ELSE Return(duration_seconds)

\* AudioSegment.from_file(audio_path), len(audio) / 1000.0 and the two
\* duration checks, on the bytes found at audio_path
MeasureAudio(found) ==
    IF ~Truthy(found) THEN AudioError(<<"no such file">>)
    ELSE IF ~found[1].decodable THEN AudioError(<<"decoding failed">>)
    ELSE LET duration_seconds == Frac(found[1].len_ms, MsPerSecond)
         IN  IF Less(duration_seconds, MinSeconds) THEN AudioError(TooShort)
             ELSE IF Greater(duration_seconds, MaxSeconds) THEN AudioError(TooLong)
             ELSE Return(duration_seconds)

\* _convert_to_mp3: from_file(audio_path) and export(mp3_path); export_ok is
\* whether the encoder succeeds
ConvertToMp3(found, export_ok) ==
    IF ~Truthy(found) \/ ~found[1].decodable \/ ~export_ok
    THEN AudioError(<<"Audio format conversion error: ", "conversion failed">>)
    ELSE Return([mp3 |-> found[1]])

\* open(mp3_path, 'rb') and client.audio.transcriptions.create(...);
\* stt_ok is whether the remote service answers
Transcribe(found, stt_ok) ==
    IF ~Truthy(found) THEN AudioError(<<"no such file">>)
    ELSE IF ~stt_ok THEN AudioError(<<"transcription request failed">>)
    ELSE Return(found[1].mp3.speech)

\* text check, char_count and wpm = (char_count / duration_seconds) * 60
RateOf(text, duration_seconds) ==
    IF Unrecognised(text) THEN AudioError(NoSpeech)
    ELSE Return(Frac(CharCount(text) * duration_seconds.d * SecondsPerMinute,
                     duration_seconds.n))

\* analyze_audio(self, audio_file), one call run to its end
analyze_audio(words_per_minute0, fs0, audio, export_ok, stt_ok) ==
    LET fs1 == WriteFile(fs0, audio_path, audio)
        measured == MeasureAudio(fs1[audio_path])
        converted == ConvertToMp3(fs1[audio_path], export_ok)
        fs2 == IF converted.raised THEN fs1
               ELSE WriteFile(fs1, mp3_path, converted.value)
        heard == Transcribe(fs2[mp3_path], stt_ok)
        rate == RateOf(heard.value, measured.value)
        fs3 == RemoveIfExists(RemoveIfExists(fs2, audio_path), mp3_path)
        failed(r, sent, f) ==
            [fs |-> f, words_per_minute |-> words_per_minute0, ret |-> r,
             converted |-> ~measured.raised /\ ~converted.raised,
             transcription_requests |-> sent]
    IN  IF measured.raised THEN failed(measured, 0, fs1)
        ELSE IF converted.raised THEN failed(converted, 0, fs1)
        ELSE IF heard.raised
            THEN failed(heard, IF Truthy(fs2[mp3_path]) THEN 1 ELSE 0, fs2)
        ELSE IF rate.raised THEN failed(rate, 1, fs2)
        ELSE [fs |-> fs3, words_per_minute |-> Some(rate.value), ret |-> rate,
              converted |-> TRUE,
              transcription_requests |-> 1]

----------------------------------------------------------------------------
(* TranscriptGenerator *)

MaxCompletionTokens == 4000

Times(k, x) == Frac(k * x.n, x.d)

\* not slides or len(slides) == 0
NoSlides(slides) == ~Truthy(slides) \/ Len(slides[1]) = 0

NoSlidesMessage == <<"No slide content, please upload a PDF file first">>

\* TargetWords with the rate truncated before the multiplication
TargetWords_truncate_first(target_duration, words_per_minute) ==
    target_duration * IntOf(words_per_minute)

\* target_words = int(target_duration * words_per_minute)
TargetWords(target_duration, words_per_minute) ==
    IntOf(Times(target_duration, words_per_minute))

\* words_per_slide = target_words // len(slides)
WordsPerSlide(target_words, slide_count) == target_words \div slide_count

\* style_descriptions.get(style, "Use a natural and smooth tone")
StyleDesc(style) ==
    CASE style = "Lively" ->
           "Use a relaxed, lively tone with appropriate interactive and humorous elements"
      [] style = "Serious" ->
           "Use a formal, professional tone maintaining academic rigor"
      [] style = "Motivational" ->
           "Use inspiring language full of positive energy and motivation"
      [] style = "Educational" ->
           "Use clear, easy-to-understand explanations, as if teaching students"
      [] style = "Conversational" ->
           "Use a conversational tone, as if talking face-to-face with the audience"
      [] OTHER -> "Use a natural and smooth tone"

Languages ==
    {"Traditional Chinese", "English", "Simplified Chinese", "Japanese",
     "Korean", "Spanish", "French", "German"}

\* language_instructions.get(language, "Output in Traditional Chinese")
LangInst(language) ==
    IF language \in Languages THEN <<"Output in ", language>>
    ELSE <<"Output in ", "Traditional Chinese">>

\* the block _create_system_prompt appends as requirement 7
TipsRequirement ==
    <<"7. Include speech tips suggestions in appropriate places, marked with [square brackets], including:",
      "Gesture suggestions (e.g., open arms, point to slide, clench fist for emphasis)",
      "Tone suggestions (e.g., raise volume, slow down, emphasize)",
      "Pause timing (e.g., [Pause 2-3 seconds])",
      "Body language (e.g., eye contact, movement, lean forward)",
      "These suggestions should blend naturally into the transcript to help the speaker better convey the message">>

\* the block generate_transcript appends to the user text
TipsInstruction ==
    <<"Speech Tips Suggestions",
      "Please include the following speech tips in appropriate places within the transcript (marked with [square brackets]):",
      "[Gesture: Open arms]", "[Gesture: Point to slide]",
      "[Tone: Raise volume]", "[Tone: Slow down]", "[Pause 2-3 seconds]",
      "[Eye contact]", "[Movement: Move to center stage]">>

\* if expert_role:
RoleGiven(expert_role) == Truthy(expert_role) /\ expert_role[1] # ""

\* CreateSystemPrompt with requirement 7 always appended
CreateSystemPrompt_always_tips(style, topic, audience, language, expert_role, words_per_slide, include_tips) ==
    [role_intro |-> IF RoleGiven(expert_role)
                      THEN <<"You are a ", expert_role[1], ", ">> ELSE <<>>,
     topic |-> topic,
     audience |-> audience,
     style_desc |-> StyleDesc(style),
     lang_inst |-> LangInst(language),
     words_per_slide |-> words_per_slide,
     tips_requirement |-> TipsRequirement]

\* _create_system_prompt(...): the template's holes
CreateSystemPrompt(style, topic, audience, language, expert_role, words_per_slide, include_tips) ==
    [role_intro |-> IF RoleGiven(expert_role)
                      THEN <<"You are a ", expert_role[1], ", ">> ELSE <<>>,
     topic |-> topic,
     audience |-> audience,
     style_desc |-> StyleDesc(style),
     lang_inst |-> LangInst(language),
     words_per_slide |-> words_per_slide,
     tips_requirement |-> IF include_tips THEN TipsRequirement ELSE <<>>]

\* the "text" part of user_content: the template's holes
UserText(a, target_words, words_per_slide) ==
    [total_duration |-> a.target_duration,
     speech_rate |-> IntOf(a.words_per_minute),
     target_words |-> target_words,
     words_per_slide |-> words_per_slide,
     language |-> a.language,
     tips_instruction |-> IF a.include_tips THEN TipsInstruction ELSE <<>>]

\* for slide in slides: user_content.append({"type": "image_url", ...})
ImagePart(slide) ==
    [type |-> "image_url",
     image_url |-> [url |-> <<"data:image/png;base64,", slide.image>>,
                    detail |-> "high"]]

\* the arguments of client.chat.completions.create
BuildRequest(a) ==
    LET slides == a.slides[1]
        target_words == TargetWords(a.target_duration, a.words_per_minute)
        words_per_slide == WordsPerSlide(target_words, Len(slides))
    IN  [model |-> a.model_name,
         system |-> CreateSystemPrompt(a.style, a.topic, a.audience, a.language,
                                       a.expert_role, words_per_slide,
                                       a.include_tips),
         user_text |-> UserText(a, target_words, words_per_slide),
         images |-> [i \in 1..Len(slides) |-> ImagePart(slides[i])],
         temperature |-> "0.7",
         max_completion_tokens |-> MaxCompletionTokens]

ApiKeyError ==
    <<"API Key error, please check if your OpenAI API Key is correct">>
RateLimitError == <<"API request limit reached, please try again later">>
QuotaError ==
    <<"API quota exceeded, please check your OpenAI account balance">>
GenericError(error_msg) == <<"Transcript generation error: ">> \o error_msg

\* the except clause of generate_transcript
TranslateError(error_msg) ==
    IF Contains(error_msg, "API key")
         \/ Contains(Lower(error_msg), "authentication")
      THEN Raise(ApiKeyError)
    ELSE IF Contains(Lower(error_msg), "rate limit") THEN Raise(RateLimitError)
    ELSE IF Contains(Lower(error_msg), "quota") THEN Raise(QuotaError)
    ELSE Raise(GenericError(error_msg))

\* the requests one call of generate_transcript sends
RequestsSent(a) == IF NoSlides(a.slides) THEN <<>> ELSE <<BuildRequest(a)>>

\* generate_transcript answering from self.transcript when it holds one
generate_transcript_reusing(transcript0, a, remote) ==
    IF NoSlides(a.slides)
      THEN [transcript |-> transcript0, sent |-> <<>>,
            ret |-> TranslateError(NoSlidesMessage)]
    ELSE IF transcript0 # ""
      THEN [transcript |-> transcript0, sent |-> <<>>,
            ret |-> Return(transcript0)]
    ELSE IF remote.raised
      THEN [transcript |-> transcript0, sent |-> <<BuildRequest(a)>>,
            ret |-> TranslateError(remote.error)]
    ELSE [transcript |-> remote.value, sent |-> <<BuildRequest(a)>>,
          ret |-> Return(remote.value)]

\* generate_transcript without its check of the slides: the request goes out
\* on whatever it was given
generate_transcript_unchecked(transcript0, a, remote) ==
    LET empty == [images |-> <<>>, model |-> a.model_name]
        sent == IF NoSlides(a.slides) THEN <<empty>> ELSE <<BuildRequest(a)>>
    IN  IF remote.raised
          THEN [transcript |-> transcript0, sent |-> sent,
                ret |-> TranslateError(remote.error)]
        ELSE [transcript |-> remote.value, sent |-> sent,
              ret |-> Return(remote.value)]

\* generate_transcript(self, ...), one call run to its end; remote is the
\* outcome of the completion request, if one is sent
generate_transcript(transcript0, a, remote) ==
    IF NoSlides(a.slides)
      THEN [transcript |-> transcript0, sent |-> RequestsSent(a),
            ret |-> TranslateError(NoSlidesMessage)]
    ELSE IF remote.raised
      THEN [transcript |-> transcript0, sent |-> RequestsSent(a),
            ret |-> TranslateError(remote.error)]
    ELSE [transcript |-> remote.value, sent |-> RequestsSent(a),
          ret |-> Return(remote.value)]

----------------------------------------------------------------------------
(* Inputs *)

\* page texts of an n-page document: even pages hold only white space
PageTexts(n) == [i \in 1..n |-> IF i % 2 = 0 THEN " " ELSE "Title and bullets"]

Docs == {"deck-A.pdf", "deck-B.pdf"}

PDFs ==
    {[id |-> <<d, n>>, readable |-> TRUE, texts |-> PageTexts(n)] :
        d \in Docs, n \in 0..MaxPages}
    \cup {[id |-> <<"broken.pdf", 0>>, readable |-> FALSE, texts |-> <<>>]}

Sample(ms, speech) == [len_ms |-> ms, decodable |-> TRUE, speech |-> speech]

\* audio samples: their length in milliseconds and what is spoken in them
AudioSamples ==
    {Sample(4990, <<"a", "b">>), Sample(5000, <<"a", " ", "b">>),
     Sample(20000, <<" ">>), Sample(120000, <<"a">>),
     Sample(120010, <<"a", "b">>),
     [len_ms |-> 20000, decodable |-> FALSE, speech |-> <<>>]}

Presets == {"Slow (150 wpm)", "Medium (200 wpm)", "Fast (250 wpm)"}
SpeedOptions == Presets \cup {"Auto Analysis"}

\* wpm_map
WpmMap(speed_option) ==
    CASE speed_option = "Slow (150 wpm)" -> 150
      [] speed_option = "Medium (200 wpm)" -> 200
      [] speed_option = "Fast (250 wpm)" -> 250

\* the answers of the completion service
Completed == {Return("Slide 1 ... Slide 2 ...")}
Refused(kind, msg) == [raised |-> TRUE, kind |-> kind, error |-> msg]
BadKey == Refused("auth", <<"Incorrect ", "API key", " provided">>)

----------------------------------------------------------------------------
(* One session: the script main() and the user's interactions *)

VARIABLES
    api_key,           \* widget: the text in the "OpenAI API Key" field
    analyzer_key,      \* api_key of st.session_state.audio_analyzer.client
    generator_key,     \* api_key of st.session_state.transcript_generator.client
    pdf_file,          \* widget: the uploaded PDF, if any
    speed_option,      \* widget: the selected speech rate option
    slides_content,    \* st.session_state.pdf_processor.slides_content
    words_per_minute,  \* st.session_state.audio_analyzer.words_per_minute
    transcript,        \* st.session_state.transcript_generator.transcript
    current_wpm,       \* st.session_state.current_wpm
    fs,                \* the files under /tmp that a running call may still read
    extract_ret,       \* history: outcome of extract_slides in the last run
    analysis,          \* history: the analyze_audio call of the last run
    generation,        \* history: the Generate click of the last run
    pending,           \* direct calls of generate_transcript still to make
    calls,             \* history: the direct calls made
    sessions           \* concurrent sessions: each one's position and data

vars ==
    <<api_key, analyzer_key, generator_key, pdf_file, speed_option, slides_content, words_per_minute,
      transcript, current_wpm, fs, extract_ret, analysis, generation, pending,
      calls, sessions>>

\* the key the user enters first, and the keys that may be typed into the
\* API key field afterwards
FirstKey == "sk-entered-first"
Keys == {FirstKey, "sk-entered-later"}

\* the option a selectbox shows when the user has chosen none: its first
DefaultSpeed == "Slow (150 wpm)"

DefaultWpm == 200
MinDuration == 1
DefaultDuration == 10
MaxDuration == 180

\* what the user has typed into the form when Generate is clicked
Forms ==
    [duration : {DefaultDuration},
     topic : {"", "AI in Education"},
     audience : {"", "University Students"},
     include_tips : BOOLEAN]

\* the arguments main() passes to generate_transcript
CallArgs(form, slides, wpm) ==
    [slides |-> Some(slides),
     target_duration |-> form.duration,
     words_per_minute |-> Whole(wpm),
     style |-> "Lively",
     topic |-> form.topic,
     audience |-> form.audience,
     language |-> "Traditional Chinese",
     model_name |-> "gpt-5.1",
     expert_role |-> None,
     include_tips |-> form.include_tips]

\* the Generate button's branch of main()
OnGenerate(client, pdf, form, slides, wpm, remote) ==
    IF ~Truthy(pdf)
      THEN [shown |-> "Please upload PDF slides first", call |-> None,
            transcript |-> transcript]
    ELSE IF form.topic = ""
      THEN [shown |-> "Please fill in the speech topic", call |-> None,
            transcript |-> transcript]
    ELSE IF form.audience = ""
      THEN [shown |-> "Please fill in the target audience", call |-> None,
            transcript |-> transcript]
    ELSE LET a == CallArgs(form, slides, wpm)
             g == generate_transcript(transcript, a, remote)
         IN  [shown |-> IF g.ret.raised THEN "Generation Failed"
                        ELSE "Transcript Generation Complete!",
              call |-> Some([args |-> a, remote |-> remote, ret |-> g.ret,
                             sent |-> g.sent, api_key |-> client]),
              transcript |-> g.transcript]

\* one run of main() with the widgets as given; audio is the sample in the
\* audio uploader, analyze and generate tell which button, if any, was clicked.
\* pdf_file.read() yields the uploaded file's bytes in every run.
\* Within one session every call writes a staged file before it reads it, so
\* what a finished call leaves under /tmp is read by nobody: fs keeps only
\* the files of calls in progress, of which there are none between two runs.
\* key is the text in the API key field.  With no key the run ends at the
\* warning, before any other widget is drawn: Streamlit forgets the value of a
\* widget that a run does not draw, so the next run finds no uploaded file and
\* the first speech rate option.  With a key, the objects in st.session_state
\* are there since the first run, and no run constructs them again.
main(key, pdf, speed, audio, analyze, export_ok, stt_ok, generate, form, remote) ==
  IF key = ""
  THEN
    /\ api_key' = key
    /\ pdf_file' = None
    /\ speed_option' = DefaultSpeed
    /\ extract_ret' = None
    /\ analysis' = None
    /\ generation' = None
    /\ UNCHANGED <<analyzer_key, generator_key, slides_content,
                   words_per_minute, transcript, current_wpm, fs, pending,
                   calls, sessions>>
  ELSE
    LET extracted == extract_slides(slides_content, fs, pdf[1])
        fs1 == IF Truthy(pdf) THEN extracted.fs ELSE fs
        slides1 == IF Truthy(pdf) THEN extracted.slides_content
                   ELSE slides_content
        analysing == speed = "Auto Analysis" /\ Truthy(audio) /\ analyze
        analysed == analyze_audio(words_per_minute, fs1, audio[1], export_ok, stt_ok)
        wpm1 == IF speed # "Auto Analysis" THEN WpmMap(speed)
                ELSE IF analysing /\ ~analysed.ret.raised
                  THEN IntOf(analysed.ret.value)
                ELSE current_wpm
        generated == OnGenerate(generator_key, pdf, form, slides1, wpm1, remote)
    IN  /\ api_key' = key
        /\ UNCHANGED <<analyzer_key, generator_key>>
        /\ pdf_file' = pdf
        /\ speed_option' = speed
        /\ slides_content' = slides1
        /\ extract_ret' = IF Truthy(pdf) THEN Some(extracted.ret) ELSE None
        /\ words_per_minute' =
              IF analysing THEN analysed.words_per_minute ELSE words_per_minute
        /\ fs' = fs
        /\ analysis' =
              IF analysing
                THEN Some([audio |-> audio[1], export_ok |-> export_ok,
                           stt_ok |-> stt_ok, ret |-> analysed.ret,
                           converted |-> analysed.converted,
                           transcription_requests |->
                               analysed.transcription_requests,
                           api_key |-> analyzer_key])
              ELSE None
        /\ current_wpm' = wpm1
        /\ transcript' = IF generate THEN generated.transcript ELSE transcript
        /\ generation' =
              IF generate
                THEN Some([shown |-> generated.shown, call |-> generated.call])
              ELSE None
        /\ UNCHANGED <<pending, calls, sessions>>

NoForm == CHOOSE f \in Forms : TRUE
NoAnswer == CHOOSE r \in Completed : TRUE

\* the user replaces the text in the API key field: main() runs with no
\* button clicked
EnterApiKey(k) ==
    /\ k # api_key
    /\ main(k, pdf_file, speed_option, None, FALSE, TRUE, TRUE, FALSE, NoForm, NoAnswer)

\* the user uploads a PDF: main() runs with no button clicked
UploadPdf(p) ==
    /\ api_key # ""
    /\ main(api_key, Some(p), speed_option, None, FALSE, TRUE, TRUE, FALSE, NoForm, NoAnswer)

\* the user removes the uploaded PDF
RemovePdf ==
    /\ api_key # ""
    /\ Truthy(pdf_file)
    /\ main(api_key, None, speed_option, None, FALSE, TRUE, TRUE, FALSE, NoForm, NoAnswer)

\* the user picks a speech rate option
SelectSpeed(o) ==
    /\ api_key # ""
    /\ main(api_key, pdf_file, o, None, FALSE, TRUE, TRUE, FALSE, NoForm, NoAnswer)

\* the user, having uploaded the sample a, clicks "Start Speech Rate Analysis"
ClickAnalyze(a, export_ok, stt_ok) ==
    /\ api_key # ""
    /\ speed_option = "Auto Analysis"
    /\ main(api_key, pdf_file, speed_option, Some(a), TRUE, export_ok, stt_ok, FALSE, NoForm, NoAnswer)

\* the user, having filled in the form, clicks "Generate Transcript"
ClickGenerate(form, remote) ==
    /\ api_key # ""
    /\ main(api_key, pdf_file, speed_option, None, FALSE, TRUE, TRUE, TRUE, form, remote)

\* the first run of main() with the key k entered: it constructs the objects
\* of st.session_state, the two clients with the key of that run
FirstRun(k) ==
    /\ api_key = k
    /\ analyzer_key = k
    /\ generator_key = k

\* the session after the first run of main() with an API key entered
InitSession ==
    /\ FirstRun(FirstKey)
    /\ pdf_file = None
    /\ speed_option = DefaultSpeed
    /\ slides_content = <<>>
    /\ words_per_minute = None
    /\ transcript = ""
    /\ current_wpm = WpmMap(DefaultSpeed)
    /\ fs = NoFiles
    /\ extract_ret = None
    /\ analysis = None
    /\ generation = None

Init ==
    /\ InitSession
    /\ pending = <<>>
    /\ calls = <<>>
    /\ sessions = <<>>

Next ==
    \/ \E k \in Keys \cup {""} : EnterApiKey(k)
    \/ \E p \in PDFs : UploadPdf(p)
    \/ RemovePdf
    \/ \E o \in SpeedOptions : SelectSpeed(o)
    \/ \E a \in AudioSamples, export_ok \in BOOLEAN, stt_ok \in BOOLEAN :
           ClickAnalyze(a, export_ok, stt_ok)
    \/ \E form \in Forms, remote \in Completed \cup {BadKey} : ClickGenerate(form, remote)

Spec == Init /\ [][Next]_vars

----------------------------------------------------------------------------
(* generate_transcript called directly, on arguments drawn at the start *)

SlideCounts == 0..MaxSlides

Deck(n) == [id |-> <<"deck.pdf", n>>, readable |-> TRUE, texts |-> PageTexts(n)]

SlideArgs == {None} \cup {Some(SlidesOf(Deck(n))) : n \in SlideCounts}

Rates ==
    {Whole(0), Frac(1, 2), Frac(3, 2), Frac(60000, 61000), Whole(150),
     Frac(2001, 10), Whole(200), Whole(250)}

Args(slides, duration, wpm, role, tips) ==
    [slides |-> slides,
     target_duration |-> duration,
     words_per_minute |-> wpm,
     style |-> "Serious",
     topic |-> "AI in Education",
     audience |-> "University Students",
     language |-> "English",
     model_name |-> "gpt-4o",
     expert_role |-> role,
     include_tips |-> tips]

\* failures of the completion service: the kind of each and its text
Refusals ==
    {BadKey,
     Refused("auth", <<"Invalid ", "Authentication">>),
     Refused("auth", <<"You must be a member of an organization to use the API">>),
     Refused("rate_limit", <<"Rate limit", " reached for requests">>),
     Refused("quota", <<"You exceeded your current ", "quota",
                        ", please check your plan and billing details">>),
     Refused("other", <<"The server had an error while processing your request">>),
     Refused("other", <<"Connection error.">>)}

\* each duration and rate with each slide count, the request answered
BudgetInputs ==
    {<<Args(s, d, w, None, TRUE), NoAnswer>> :
        s \in SlideArgs, d \in MinDuration..MaxDuration, w \in Rates}

\* each failure of the service
FailureInputs ==
    {<<Args(Some(SlidesOf(Deck(n))), DefaultDuration, Whole(DefaultWpm), None, tips), r>> :
        n \in 1..MaxPages, tips \in BOOLEAN, r \in Refusals}

\* calls made one after another on the same generator
RepeatedInputs ==
    {<<Args(s, DefaultDuration, Whole(DefaultWpm), role, tips), r>> :
        s \in {Some(<<>>), Some(SlidesOf(Deck(1))), Some(SlidesOf(Deck(2)))},
        role \in {None, Some("Senior AI Researcher")},
        tips \in BOOLEAN,
        r \in {NoAnswer, Return("Slide 1 (another wording) ..."), BadKey}}

InitCall ==
    /\ InitSession
    /\ pending \in {<<x>> : x \in BudgetInputs \cup FailureInputs}
                   \cup UNION {[1..k -> RepeatedInputs] : k \in 2..MaxCalls}
    /\ calls = <<>>
    /\ sessions = <<>>

\* the next pending call is made
Call ==
    /\ pending # <<>>
    /\ LET a == Head(pending)[1]
           remote == Head(pending)[2]
           g == generate_transcript(transcript, a, remote)
       IN  /\ transcript' = g.transcript
           /\ calls' = Append(calls, [args |-> a, remote |-> remote,
                                      ret |-> g.ret, sent |-> g.sent])
    /\ pending' = Tail(pending)
    /\ UNCHANGED <<api_key, analyzer_key, generator_key, pdf_file,
                   speed_option, slides_content, words_per_minute,
                   current_wpm, fs, extract_ret, analysis, generation, sessions>>

NextCall == Call

SpecCall == InitCall /\ [][NextCall]_vars

----------------------------------------------------------------------------
(* Two sessions of the same server process: each runs extract_slides and
   analyze_audio on objects of its own, statement by statement, and all of
   them stage their files under the same names in /tmp *)

Sessions == 1..2

ConcPdfs == {p \in PDFs : p.readable /\ Len(p.texts) >= 1}
ConcAudio == {Sample(5000, <<"a", " ", "b">>), Sample(120000, <<"a">>)}

Idle ==
    [pc |-> "idle", op |-> "", arg |-> None, duration_seconds |-> None,
     wpm |-> None, slides_content |-> <<>>, words_per_minute |-> None,
     returned |-> <<>>]

InitConc ==
    /\ InitSession
    /\ pending = <<>>
    /\ calls = <<>>
    /\ sessions = [s \in Sessions |-> Idle]

\* the call in progress of the session me returns or raises
Finish(ret, me) ==
    [me EXCEPT !.pc = "idle", !.duration_seconds = None, !.wpm = None,
               !.returned = Append(me.returned,
                                   [op |-> me.op, arg |-> me.arg[1], ret |-> ret])]

UnchangedSession ==
    UNCHANGED <<api_key, analyzer_key, generator_key, pdf_file,
                speed_option, slides_content, words_per_minute, transcript, current_wpm, extract_ret, analysis, generation,
                pending, calls>>

\* extract_slides: open(pdf_path, 'wb'), f.write(pdf_file.read())
PdfWrite(s, p) ==
    /\ sessions[s].pc = "idle"
    /\ Len(sessions[s].returned) < MaxOps
    /\ fs' = WriteFile(fs, pdf_path, p)
    /\ sessions' = [sessions EXCEPT ![s].pc = "pdf_open",
                                    ![s].op = "extract_slides",
                                    ![s].arg = Some(p)]
    /\ UnchangedSession

\* extract_slides: fitz.open(pdf_path) to the return
PdfOpen(s) ==
    /\ sessions[s].pc = "pdf_open"
    /\ LET ret == ReadSlides(fs[pdf_path])
           me == [sessions[s] EXCEPT !.slides_content =
                      IF ret.raised THEN @ ELSE ret.value]
       IN  sessions' = [sessions EXCEPT ![s] = Finish(ret, me)]
    /\ UNCHANGED fs
    /\ UnchangedSession

\* analyze_audio: open(audio_path, 'wb'), f.write(audio_file.read())
AudioWrite(s, a) ==
    /\ sessions[s].pc = "idle"
    /\ Len(sessions[s].returned) < MaxOps
    /\ fs' = WriteFile(fs, audio_path, a)
    /\ sessions' = [sessions EXCEPT ![s].pc = "audio_measure",
                                    ![s].op = "analyze_audio",
                                    ![s].arg = Some(a)]
    /\ UnchangedSession

\* analyze_audio: AudioSegment.from_file(audio_path) and the duration checks
AudioMeasure(s) ==
    /\ sessions[s].pc = "audio_measure"
    /\ LET measured == MeasureAudio(fs[audio_path])
       IN  sessions' =
              [sessions EXCEPT ![s] =
                  IF measured.raised THEN Finish(measured, @)
                  ELSE [@ EXCEPT !.pc = "audio_convert",
                                 !.duration_seconds = Some(measured.value)]]
    /\ UNCHANGED fs
    /\ UnchangedSession

\* analyze_audio: self._convert_to_mp3(audio_path)
AudioConvert(s) ==
    /\ sessions[s].pc = "audio_convert"
    /\ LET converted == ConvertToMp3(fs[audio_path], TRUE)
       IN  /\ fs' = IF converted.raised THEN fs
                    ELSE WriteFile(fs, mp3_path, converted.value)
           /\ sessions' =
                 [sessions EXCEPT ![s] =
                     IF converted.raised THEN Finish(converted, @)
                     ELSE [@ EXCEPT !.pc = "audio_transcribe"]]
    /\ UnchangedSession

\* analyze_audio: open(mp3_path, 'rb'), the transcription request, the
\* rate and self.words_per_minute = wpm
AudioTranscribe(s) ==
    /\ sessions[s].pc = "audio_transcribe"
    /\ LET heard == Transcribe(fs[mp3_path], TRUE)
           rate == RateOf(heard.value, sessions[s].duration_seconds[1])
       IN  sessions' =
              [sessions EXCEPT ![s] =
                  IF heard.raised THEN Finish(heard, @)
                  ELSE IF rate.raised THEN Finish(rate, @)
                  ELSE [@ EXCEPT !.pc = "audio_cleanup",
                                 !.wpm = Some(rate.value),
                                 !.words_per_minute = Some(rate.value)]]
    /\ UNCHANGED fs
    /\ UnchangedSession

\* analyze_audio: the two os.remove and return wpm (taken as one step; an
\* os.remove racing with the other session's adds failures of its own)
AudioCleanup(s) ==
    /\ sessions[s].pc = "audio_cleanup"
    /\ fs' = RemoveIfExists(RemoveIfExists(fs, audio_path), mp3_path)
    /\ sessions' = [sessions EXCEPT ![s] =
                       Finish(Return(sessions[s].wpm[1]), @)]
    /\ UnchangedSession

NextConc ==
    \E s \in Sessions :
        \/ \E p \in ConcPdfs : PdfWrite(s, p)
        \/ PdfOpen(s)
        \/ \E a \in ConcAudio : AudioWrite(s, a)
        \/ AudioMeasure(s)
        \/ AudioConvert(s)
        \/ AudioTranscribe(s)
        \/ AudioCleanup(s)

SpecConc == InitConc /\ [][NextConc]_vars

----------------------------------------------------------------------------
(* Properties *)

\* the generate_transcript call of the last run of main(), if there was one
Called == Truthy(generation) /\ Truthy(generation[1].call)
TheCall == generation[1].call[1]

EmptySlides(slides) == slides = None \/ slides = Some(<<>>)

\* a call on no slides fails with the no-slides error and sends nothing;
\* no request carries an empty list of slide images
RespectsNoSlides(c) ==
    /\ \A i \in DOMAIN c.sent : Len(c.sent[i].images) > 0
    /\ EmptySlides(c.args.slides) =>
          /\ c.sent = <<>>
          /\ c.ret.raised
          /\ c.ret.error = <<"Transcript generation error: ">> \o NoSlidesMessage

(* C1: whatever PDFs were uploaded before Generate is clicked, a call of
   generate_transcript on zero slides fails with the no-slides error before a
   completion request is sent, and no completion request is ever sent with an
   empty slide sequence. *)
C1_NoRequestWithoutSlides == Called => RespectsNoSlides(TheCall)

\* Generate clicked after an upload whose extraction failed: the call is made
\* on an empty slide list
C1_Witness ==
    /\ Called
    /\ Truthy(pdf_file)
    /\ TheCall.args.slides = Some(<<>>)
    /\ TheCall.ret.raised

\* the same on direct calls, where slides may also be None
C1_DirectCalls == \A i \in DOMAIN calls : RespectsNoSlides(calls[i])

(* C4: for the uploaded PDF, if it is readable and has N >= 1 pages,
   extract_slides returns exactly N records, record i carrying page value i
   and the image and text of page i of that PDF, and slides_content is that
   same sequence; if it has no pages, extract_slides fails and returns no
   records. *)
C4_OneRecordPerPage ==
    Truthy(pdf_file) =>
        LET doc == pdf_file[1]
            N == Len(doc.texts)
            ret == extract_ret[1]
        IN  /\ (doc.readable /\ N >= 1) =>
                  /\ ~ret.raised
                  /\ Len(ret.value) = N
                  /\ \A i \in 1..N :
                        /\ ret.value[i].page = i
                        /\ ret.value[i].image.b64.png.page = i
                        /\ ret.value[i].image.b64.png.doc = doc.id
                        /\ ret.value[i].text \in
                              {doc.texts[i], "[No text content on this page]"}
                  /\ slides_content = ret.value
            /\ (doc.readable /\ N = 0) => ret.raised

\* a readable PDF of MaxPages pages has been extracted
C4_Witness ==
    /\ Truthy(pdf_file)
    /\ pdf_file[1].readable
    /\ Len(pdf_file[1].texts) = MaxPages
    /\ ~extract_ret[1].raised
    /\ Len(slides_content) = MaxPages

(* C5: analyze_audio fails with the too-short error exactly when the sample
   lasts less than 5 seconds and with the too-long error exactly when it
   lasts more than 120 seconds, in both cases with nothing converted and no
   transcription request sent; a sample of 5 to 120 seconds, bounds included,
   is converted and, once converted, sent for transcription. *)
C5_DurationWindow ==
    Truthy(analysis) =>
        LET a == analysis[1]
            ms == a.audio.len_ms
            short == a.ret.raised /\ Contains(a.ret.error, TooShort[1])
            long == a.ret.raised /\ Contains(a.ret.error, TooLong[1])
        IN  a.audio.decodable =>
              /\ short <=> ms < 5 * 1000
              /\ long <=> ms > 120 * 1000
              /\ (short \/ long) =>
                    ~a.converted /\ a.transcription_requests = 0
              /\ (~short /\ ~long /\ a.export_ok) =>
                    a.converted /\ a.transcription_requests = 1

\* a sample of exactly 5 seconds was analysed and sent for transcription
C5_Witness ==
    /\ Truthy(analysis)
    /\ analysis[1].audio.len_ms = 5000
    /\ analysis[1].transcription_requests = 1
    /\ ~analysis[1].ret.raised

(* C6: the words-per-minute value the session holds, and passes to
   generate_transcript, is a positive number in every reachable state. *)
C6_WpmPositive ==
    /\ current_wpm > 0
    /\ Called => TheCall.args.words_per_minute.n > 0

(* C10: a generation request that reaches generate_transcript is made on the
   slides of the PDF that is uploaded at that moment: every slide it is given
   comes from that PDF, and every page of that PDF is among them. *)
C10_SlidesOfCurrentPdf ==
    Called =>
        LET doc == pdf_file[1]
            slides == TheCall.args.slides[1]
        IN  /\ \A i \in DOMAIN slides : slides[i].image.b64.png.doc = doc.id
            /\ doc.readable => Len(slides) = Len(doc.texts)

(* C2: for every duration in 1..180, every non-negative rate and every
   slide count N >= 1, the request carries target_words = floor(duration *
   wpm) and words_per_slide = floor(target_words / N), so that
   N * words_per_slide <= target_words < N * (words_per_slide + 1);
   duration 10 at 200 wpm over 8 slides gives 2000 and 250. *)
C2_WordBudget ==
    \A k \in DOMAIN calls :
        LET c == calls[k]
            d == c.args.target_duration
            w == c.args.words_per_minute
        IN  ~EmptySlides(c.args.slides) =>
              LET N == Len(c.args.slides[1])
                  tw == c.sent[1].user_text.target_words
                  wps == c.sent[1].user_text.words_per_slide
              IN  /\ Len(c.sent) = 1
                  /\ tw * w.d <= d * w.n
                  /\ d * w.n < (tw + 1) * w.d
                  /\ N * wps <= tw
                  /\ tw < N * (wps + 1)
                  /\ c.sent[1].system.words_per_slide = wps
                  /\ (d = 10 /\ w = Whole(200) /\ N = 8) =>
                        tw = 2000 /\ wps = 250

\* a call whose budget leaves a remainder on both divisions
C2_Witness ==
    /\ Len(calls) = 1
    /\ calls[1].args.target_duration = 7
    /\ calls[1].args.words_per_minute = Frac(3, 2)
    /\ Len(calls[1].sent) = 1
    /\ Len(calls[1].sent[1].images) = 3
    /\ calls[1].sent[1].user_text.target_words = 10
    /\ calls[1].sent[1].user_text.words_per_slide = 3

\* the category a raised error is reported under
Category(error) ==
    IF error = ApiKeyError THEN "auth"
    ELSE IF error = RateLimitError THEN "rate_limit"
    ELSE IF error = QuotaError THEN "quota"
    ELSE "other"

(* C3: every failure of the completion service is reported in the category
   of its kind: an authentication failure as the API-key error, a rate-limit
   response as the request-limit error, a quota exhaustion as the quota
   error, anything else as the generic error. *)
C3_CategoryMatchesKind ==
    \A k \in DOMAIN calls :
        (calls[k].sent # <<>> /\ calls[k].remote.raised) =>
            /\ calls[k].ret.raised
            /\ Category(calls[k].ret.error) = calls[k].remote.kind

(* C8: every call on a non-empty slide sequence sends exactly one completion
   request, whether or not the service answers and whatever earlier calls
   did, and two calls on the same arguments send the same payload. *)
C8_OneRequestPerCall ==
    /\ \A k \in DOMAIN calls :
          ~EmptySlides(calls[k].args.slides) => Len(calls[k].sent) = 1
    /\ \A j, k \in DOMAIN calls :
          calls[j].args = calls[k].args => calls[j].sent = calls[k].sent

\* the same arguments submitted twice, the first request refused and the
\* second answered
C8_Witness ==
    /\ Len(calls) = 2
    /\ calls[1].args = calls[2].args
    /\ calls[1].ret.raised
    /\ ~calls[2].ret.raised
    /\ Len(calls[1].sent) = 1
    /\ calls[1].sent = calls[2].sent

\* the bracket-tagged guidance is in the text
HasGuidance(block) ==
    \E i \in DOMAIN block :
        block[i] \in {"[Gesture: Open arms]", "[Pause 2-3 seconds]",
                      "Pause timing (e.g., [Pause 2-3 seconds])",
                      "Gesture suggestions (e.g., open arms, point to slide, clench fist for emphasis)"}

(* C9: in every request sent, the system instruction and the user text each
   carry the bracket-tagged delivery-tips guidance if and only if
   include_tips is true. *)
C9_TipsIffRequested ==
    \A k \in DOMAIN calls :
        \A i \in DOMAIN calls[k].sent :
            /\ HasGuidance(calls[k].sent[i].system.tips_requirement)
                  <=> calls[k].args.include_tips
            /\ HasGuidance(calls[k].sent[i].user_text.tips_instruction)
                  <=> calls[k].args.include_tips

\* a request sent with include_tips false, and one with include_tips true
C9_Witness ==
    /\ Len(calls) = 2
    /\ ~calls[1].args.include_tips
    /\ calls[2].args.include_tips
    /\ Len(calls[1].sent) = 1
    /\ Len(calls[2].sent) = 1
    /\ ~HasGuidance(calls[1].sent[1].system.tips_requirement)
    /\ HasGuidance(calls[2].sent[1].user_text.tips_instruction)

(* C7: with two sessions running at once, every call of extract_slides and
   of analyze_audio returns to its session what it returns when that session
   runs alone: slides derived only from the PDF that session uploaded, a rate
   derived only from that session's audio sample. *)
C7_SessionsIsolated ==
    \A s \in DOMAIN sessions :
        \A k \in DOMAIN sessions[s].returned :
            LET r == sessions[s].returned[k]
            IN  /\ r.op = "extract_slides" =>
                      r.ret = extract_slides(<<>>, NoFiles, r.arg).ret
                /\ r.op = "analyze_audio" =>
                      r.ret = analyze_audio(None, NoFiles, r.arg, TRUE, TRUE).ret


\* the keys with which the remote calls of the last run were made: the
\* completion request of a Generate click and the transcription request of an
\* analysis, each through the client of the object that made it
KeysUsed ==
    (IF Called /\ TheCall.sent # <<>> THEN {TheCall.api_key} ELSE {})
    \cup (IF Truthy(analysis) /\ analysis[1].transcription_requests > 0
            THEN {analysis[1].api_key} ELSE {})

\* C11: every remote call of a run, transcription or completion, is made with
\* the key that is in the API key field in that run; so a Generate click
\* after the user has replaced the key sends its request with the new key.
C11_CallsUseEnteredKey == \A k \in KeysUsed : k = api_key

====
